---- MODULE Spec2Model ----
(***************************************************************************)
(* A model of dmillard/autogen's CUDA library assembly pipeline:           *)
(*   - CudaLibraryProcessor (include/autogen/cuda/cuda_library_processor)  *)
(*   - CudaModelSourceGen::forward_one_source and the code it emits        *)
(*     (the dispatch function and the forward-one driver).                 *)
(* A generated text is a sequence of lines, a line a pair <<kind, arg>> of *)
(* strings, so that two texts are equal exactly when they agree line for   *)
(* line.                                                                   *)
(***************************************************************************)
EXTENDS Integers, Sequences, FiniteSets, TLC

VARIABLES
  \* ---- CudaLibraryProcessor ----
  models_,        \* std::list<CudaModelSourceGen*>: sequence of model ids
  gen_srcs_,      \* std::vector<std::string>
  sources_,       \* std::vector<std::pair<std::string, std::string>>
  src_dir_,       \* std::filesystem::path ("" is the empty path)
  library_name_,  \* std::string
  platform,       \* the build: "win" (AUTOGEN_SYSTEM_WIN) or "posix"
  disk,           \* the file system: [dirs, files, log]
  toolchain,      \* the std::system calls made so far: seq of [cmd, exit]
  outcome,        \* how the last operation ended: [op, status, code]
  nOps,           \* number of operations invoked on the library so far
  main_model,     \* the constructor's model argument
  added,          \* the add_model calls so far: seq of [model, prepend]
  passes,         \* number of generate_code calls so far
  \* ---- forward_one_source and the code it emits ----
  cgen,           \* the CudaModelSourceGen whose forward-one code is generated
  elements,       \* std::map<size_t, std::vector<size_t>>: column -> rows
  dispatch_src,   \* text of <name>_sparse_forward_one
  sparsity_fn,    \* <name>_forward_one_sparsity: column -> row indices
  pc,             \* where the generator / the emitted driver stands
  tx, ty,         \* derivative components tx[2j+1], ty[2i+1]
  txPos, nnzTx, nnzMax, j, ej, ret, compressed,  \* the driver's locals
  spill,          \* what lies past the end of compressed[n]
  junk,           \* what indeterminate memory reads as in this call
  returned,       \* the driver's return value, once pc = "done"
  ty0,            \* ty as the caller passed it in
  trace,          \* the dispatch calls and scatters made by the driver
  dcall           \* a direct call of the dispatch function and its result

libVars == <<models_, gen_srcs_, sources_, src_dir_, library_name_, platform,
             disk, toolchain, outcome, nOps, main_model, added, passes>>

drvVars == <<cgen, elements, dispatch_src, sparsity_fn, pc, tx, ty, txPos,
             nnzTx, nnzMax, j, ej, ret, compressed, spill, junk, returned,
             ty0, trace, dcall>>

vars == <<libVars, drvVars>>

(***************************************************************************)
(* Bounds                                                                  *)
(***************************************************************************)
MaxOps == 4
MaxNnz == 3

(***************************************************************************)
(* The models handed to the library (CudaModelSourceGen objects).  The     *)
(* library only reads their name, flags, dimensions and sparsity.          *)
(***************************************************************************)
Catalog ==
  ( 1 :> [ name |-> "a", base_type_name |-> "float", kernel_only |-> FALSE,
           fwd0 |-> TRUE, fwd1 |-> TRUE, rev1 |-> FALSE, jac |-> FALSE,
           sjac |-> FALSE, Domain |-> 3, Range |-> 2, global_input_dim |-> 0,
           rows |-> <<0, 1, 0>>, cols |-> <<0, 0, 2>>,
           atomics |-> FALSE, loopTapes |-> FALSE ] ) @@
  ( 2 :> [ name |-> "b", base_type_name |-> "double", kernel_only |-> TRUE,
           fwd0 |-> FALSE, fwd1 |-> TRUE, rev1 |-> TRUE, jac |-> TRUE,
           sjac |-> TRUE, Domain |-> 2, Range |-> 3, global_input_dim |-> 1,
           rows |-> <<2, 0>>, cols |-> <<1, 1>>,
           atomics |-> TRUE, loopTapes |-> TRUE ] ) @@
  ( 3 :> [ name |-> "c", base_type_name |-> "float", kernel_only |-> FALSE,
           fwd0 |-> TRUE, fwd1 |-> TRUE, rev1 |-> FALSE, jac |-> FALSE,
           sjac |-> FALSE, Domain |-> 1, Range |-> 1, global_input_dim |-> 2,
           rows |-> <<0>>, cols |-> <<0>>,
           atomics |-> FALSE, loopTapes |-> FALSE ] )

ModelIds == DOMAIN Catalog

LibraryNames == {"", "lib"}

Platforms == {"win", "posix"}

ExitCodes == {0, 2}

(***************************************************************************)
(* Helpers on sequences and std::map                                       *)
(***************************************************************************)
Last(s) == s[Len(s)]

RECURSIVE Reverse(_)
Reverse(s) == IF s = <<>> THEN <<>> ELSE Append(Reverse(Tail(s)), Head(s))

RECURSIVE Concat(_)
Concat(ss) == IF ss = <<>> THEN <<>> ELSE Head(ss) \o Concat(Tail(ss))

SetMin(S) == CHOOSE x \in S : \A y \in S : x <= y

\* the keys of a std::map in iteration (ascending) order
RECURSIVE SortedKeys(_)
SortedKeys(S) ==
  IF S = {} THEN <<>> ELSE <<SetMin(S)>> \o SortedKeys(S \ {SetMin(S)})

EmptyMap == [k \in {} |-> <<>>]

\* bind v to its value once, then evaluate Op on it
Let(v, Op(_)) == CHOOSE r \in {Op(x) : x \in {v}} : TRUE

(***************************************************************************)
(* forward_one_source: the element partition                               *)
(*   for e: elements[cols[e]].push_back(rows[e])                           *)
(***************************************************************************)
\* variant: a column's rows collected latest first
PushFrontRow(elems, c, r) ==
  IF c \in DOMAIN elems
    THEN [elems EXCEPT ![c] = <<r>> \o @]
    ELSE [k \in DOMAIN elems \cup {c} |->
            IF k = c THEN <<r>> ELSE elems[k]]

PushBackRow(elems, c, r) ==
  IF c \in DOMAIN elems
    THEN [elems EXCEPT ![c] = Append(@, r)]
    ELSE [k \in DOMAIN elems \cup {c} |->
            IF k = c THEN <<r>> ELSE elems[k]]

RECURSIVE PartitionFrom(_, _, _, _)
PartitionFrom(rows, cols, e, elems) ==
  IF e > Len(rows) THEN elems
  ELSE Let(PushBackRow(elems, cols[e], rows[e]),
           LAMBDA next : PartitionFrom(rows, cols, e + 1, next))

Partition(rows, cols) == PartitionFrom(rows, cols, 1, EmptyMap)

(***************************************************************************)
(* Generated texts                                                         *)
(***************************************************************************)
Include(name) == <<"#include", name>>

\* the "#include" lines of a text, in order
RECURSIVE IncludeList(_)
IncludeList(text) ==
  IF text = <<>> THEN <<>>
  ELSE (IF Head(text)[1] = "#include" THEN <<Head(text)[2]>> ELSE <<>>)
       \o IncludeList(Tail(text))

UnitIds(srcs) == [i \in 1..Len(srcs) |-> srcs[i][1]]

Extension(c) == IF c.kernel_only THEN "cuh" ELSE "cu"

ColumnFunName(c, jj) == c.name \o "_sparse_forward_one_indep" \o ToString(jj)

\* what CudaFunctionSourceGen assembles around one column's function body
ColumnUnitText(c, jj, body) ==
  (IF ~c.kernel_only THEN << <<"header", ColumnFunName(c, jj)>> >> ELSE <<>>)
  \o << <<"kernel", ColumnFunName(c, jj)>>, <<"body", body>> >>
  \o (IF ~c.kernel_only
        THEN << <<"allocation_functions", ColumnFunName(c, jj)>>,
                <<"send_functions", ColumnFunName(c, jj)>>,
                <<"kernel_launch", ColumnFunName(c, jj)>> >>
        ELSE <<>>)

\* one (filename, text) unit and one include line per column of the partition
ColumnUnits(c, elems, strategy) ==
  LET keys == SortedKeys(DOMAIN elems)
  IN [ sources |->
         [k \in 1..Len(keys) |->
            << ColumnFunName(c, keys[k]) \o ".cuh",
               ColumnUnitText(c, keys[k],
                              strategy \o ToString(elems[keys[k]])) >>],
       code |->
         [k \in 1..Len(keys) |->
            Include(ColumnFunName(c, keys[k]) \o ".cuh")] ]

generateSparseForwardOneSourcesWithAtomics(c, elems) ==
  ColumnUnits(c, elems, "forward_sweep")

generateSparseForwardOneSourcesNoAtomics(c, elems) ==
  ColumnUnits(c, elems, "sparse_jacobian")

\* variant: the cases labelled by their rank instead of their column
directional_function_source_ranked(function, elems) ==
  LET keys == SortedKeys(DOMAIN elems)
  IN << <<"function", function>>, <<"switch", "pos">> >>
     \o Concat([k \in 1..Len(keys) |->
                  << <<"case", ToString(k - 1)>>,
                     <<"call", function \o "_indep" \o ToString(keys[k])>>,
                     <<"return", "0">> >>])
     \o << <<"default", "">>, <<"return", "1">> >>

\* the emitted dispatch function: one case per column, then the default
directional_function_source(function, elems) ==
  LET keys == SortedKeys(DOMAIN elems)
  IN << <<"function", function>>, <<"switch", "pos">> >>
     \o Concat([k \in 1..Len(keys) |->
                  << <<"case", ToString(keys[k])>>,
                     <<"call", function \o "_indep" \o ToString(keys[k])>>,
                     <<"return", "0">> >>])
     \o << <<"default", "">>, <<"return", "1">> >>

\* the emitted sparsity lookup (CppADCodeGen's generateSparsity1DSource2)
generateSparsity1DSource2(function, elems) ==
  LET keys == SortedKeys(DOMAIN elems)
  IN << <<"function", function>>, <<"switch", "pos">> >>
     \o Concat([k \in 1..Len(keys) |->
                  << <<"case", ToString(keys[k])>>,
                     <<"elements", ToString(elems[keys[k]])>>,
                     <<"nnz", ToString(Len(elems[keys[k]]))>> >>])
     \o << <<"default", "">>, <<"nnz", "0">> >>

\* the emitted driver <name>_forward_one(ty, tx); its execution is DriverNext
DriverText(c) ==
  << <<"function", c.name \o "_forward_one">>,
     <<"n", ToString(c.Domain)>>, <<"m", ToString(c.Range)>>,
     <<"zero_compressed", IF c.loopTapes THEN "yes" ELSE "no">>,
     <<"sparsity", c.name \o "_forward_one_sparsity">>,
     <<"dispatch", c.name \o "_sparse_forward_one">> >>

(***************************************************************************)
(* CudaModelSourceGen::forward_one_source(sources)                         *)
(***************************************************************************)
forward_one_source(c, sources) ==
  IF c.global_input_dim > c.Domain
    THEN [thrown |-> TRUE, sources |-> sources, text |-> <<>>]
    ELSE
      Let(Partition(c.rows, c.cols), LAMBDA elems :
        Let(IF c.atomics
              THEN generateSparseForwardOneSourcesWithAtomics(c, elems)
              ELSE generateSparseForwardOneSourcesNoAtomics(c, elems),
            LAMBDA gen :
              [ thrown  |-> FALSE,
                sources |-> sources \o gen.sources,
                text    |-> gen.code \o << <<"text", "">> >>
                            \o directional_function_source(
                                 c.name \o "_sparse_forward_one", elems)
                            \o generateSparsity1DSource2(
                                 c.name \o "_forward_one_sparsity", elems)
                            \o DriverText(c) ]))

\* the other capability generators: one text each
forward_zero_source(c) == << <<"forward_zero", c.name>> >>

reverse_one_source(c, sources) ==
  [thrown |-> FALSE, sources |-> sources,
   text |-> << <<"reverse_one", c.name>> >>]

jacobian_source(c) == << <<"jacobian", c.name>> >>

sparse_jacobian_source(c) == << <<"sparse_jacobian", c.name>> >>

(***************************************************************************)
(* CudaLibraryProcessor                                                    *)
(***************************************************************************)
util_header_src(models) ==
  << <<"text", "#ifndef CUDA_UTILS_H">>,
     <<"typedef Float", Catalog[Head(models)].base_type_name>>,
     <<"text", "struct CudaFunctionMetaData; void allocate(void **, size_t)">>,
     <<"text", "#endif  // CUDA_UTILS_H">> >>

model_info_header_src(models) ==
  LET accessible_kernels ==
        SelectSeq(models, LAMBDA g : ~Catalog[g].kernel_only)
      size == Len(accessible_kernels)
  IN << <<"text", "#ifndef MODEL_INFO_H">> >>
     \o [i \in 1..size |->
           <<"name", Catalog[accessible_kernels[i]].name
                     \o (IF i < size THEN "," ELSE "")>>]
     \o << <<"count", ToString(size)>>,
           <<"text", "#endif  // MODEL_INFO_H">> >>

\* sources_.push_back(make_pair(src_name, source)); gen_srcs_.push_back(src_name)
PushUnit(st, src_name, source) ==
  [st EXCEPT !.sources = Append(@, <<src_name, source>>),
             !.gen_srcs = Append(@, src_name)]

\* the body of the loop over models_, one step per capability
GenForwardZero(c, st) ==
  IF ~c.fwd0 THEN st
  ELSE PushUnit(st, c.name \o "_forward_zero." \o Extension(c),
                forward_zero_source(c))

GenForwardOne(c, st) ==
  IF ~c.fwd1 THEN st
  ELSE Let(forward_one_source(c, st.sources),
           LAMBDA f : IF f.thrown THEN [st EXCEPT !.thrown = TRUE]
                      ELSE PushUnit([st EXCEPT !.sources = f.sources],
                                    c.name \o "_forward_one." \o Extension(c),
                                    f.text))

GenReverseOne(c, st) ==
  IF ~c.rev1 THEN st
  ELSE Let(reverse_one_source(c, st.sources),
           LAMBDA f : PushUnit([st EXCEPT !.sources = f.sources],
                               c.name \o "_reverse_one." \o Extension(c),
                               f.text))

GenJacobian(c, st) ==
  IF ~c.jac THEN st
  ELSE PushUnit(st, c.name \o "_jacobian." \o Extension(c),
                jacobian_source(c))

GenSparseJacobian(c, st) ==
  IF ~c.sjac THEN st
  ELSE PushUnit(st, c.name \o "_sparse_jacobian." \o Extension(c),
                sparse_jacobian_source(c))

\* a throw (st.thrown) ends the pass: nothing after it runs
Then(st, Step(_)) == Let(st, LAMBDA s : IF s.thrown THEN s ELSE Step(s))

GenModel(c, st) ==
  Then(Then(Then(Then(Then(st,
    LAMBDA s : GenForwardZero(c, s)),
    LAMBDA s : GenForwardOne(c, s)),
    LAMBDA s : GenReverseOne(c, s)),
    LAMBDA s : GenJacobian(c, s)),
    LAMBDA s : GenSparseJacobian(c, s))

RECURSIVE GenModels(_, _)
GenModels(models, st) ==
  IF models = <<>> THEN st
  ELSE Then(GenModel(Catalog[Head(models)], st),
            LAMBDA s : GenModels(Tail(models), s))

\* variant: the includes of the generated units written latest first
main_file_reversed(gen_srcs) ==
  << Include("util.h"), Include("model_info.h"), <<"text", "">> >>
  \o [i \in 1..Len(gen_srcs) |-> Include(gen_srcs[Len(gen_srcs) + 1 - i])]

\* the "main" source file
main_file(gen_srcs) ==
  << Include("util.h"), Include("model_info.h"), <<"text", "">> >>
  \o [i \in 1..Len(gen_srcs) |-> Include(gen_srcs[i])]

\* what generate_code starts from: gen_srcs_.clear(); sources_ is kept
GenStart(sources, models) ==
  [ sources  |-> sources \o << <<"util.h", util_header_src(models)>>,
                               <<"model_info.h",
                                 model_info_header_src(models)>> >>,
    gen_srcs |-> <<>>,
    thrown   |-> FALSE ]

PathJoin(dir, file) == IF dir = "" THEN file ELSE dir \o "/" \o file

RECURSIVE WriteFiles(_, _, _)
WriteFiles(files, dir, srcs) ==
  IF srcs = <<>> THEN files
  ELSE WriteFiles(
         [p \in DOMAIN files \cup {PathJoin(dir, Head(srcs)[1])} |->
            IF p = PathJoin(dir, Head(srcs)[1])
              THEN Head(srcs)[2] ELSE files[p]],
         dir, Tail(srcs))

\* int return_code = std::system(cmd): the exit code on Windows, the wait
\* status (exit code << 8) on POSIX
std_system(pf, exit) == IF pf = "win" THEN exit ELSE exit * 256

library_file_name(pf, name) ==
  IF pf = "win" THEN name \o ".dll" ELSE name \o ".so"

Ok(op) == [op |-> op, status |-> "ok", code |-> 0]
RuntimeError(op, code) == [op |-> op, status |-> "runtime_error", code |-> code]

LibInit ==
  \E model \in ModelIds, library_name \in LibraryNames,
     pf \in Platforms :
    /\ models_ = <<model>>
    /\ main_model = model
    /\ library_name_ = IF library_name = "" THEN Catalog[model].name
                                            ELSE library_name
    /\ platform = pf
    /\ src_dir_ = ""
    /\ gen_srcs_ = <<>>
    /\ sources_ = <<>>
    /\ disk = [dirs |-> {}, files |-> EmptyMap, log |-> <<>>]
    /\ toolchain = <<>>
    /\ outcome = Ok("construct")
    /\ nOps = 0
    /\ added = <<>>
    /\ passes = 0

\* variant: a model added with prepend = false goes to the very end
add_model_push_back(model, prepend) ==
  /\ nOps < MaxOps
  /\ models_' = IF prepend THEN <<model>> \o models_
                ELSE Append(models_, model)
  /\ added' = Append(added, [model |-> model, prepend |-> prepend])
  /\ outcome' = Ok("add_model")
  /\ nOps' = nOps + 1
  /\ UNCHANGED <<gen_srcs_, sources_, src_dir_, library_name_, platform,
                 disk, toolchain, main_model, passes>>

add_model(model, prepend) ==
  /\ nOps < MaxOps
  /\ models_' = IF prepend THEN <<model>> \o models_
                ELSE IF models_ = <<>> THEN <<model>>
                ELSE SubSeq(models_, 1, Len(models_) - 1)
                     \o <<model>> \o <<Last(models_)>>
  /\ added' = Append(added, [model |-> model, prepend |-> prepend])
  /\ outcome' = Ok("add_model")
  /\ nOps' = nOps + 1
  /\ UNCHANGED <<gen_srcs_, sources_, src_dir_, library_name_, platform,
                 disk, toolchain, main_model, passes>>

generate_code ==
  /\ nOps < MaxOps
  /\ \E st \in {GenModels(models_, GenStart(sources_, models_))} :
        IF st.thrown
          THEN /\ sources_' = st.sources
               /\ gen_srcs_' = st.gen_srcs
               /\ outcome' = RuntimeError("generate_code", 0)
          ELSE /\ sources_' = Append(st.sources,
                                     <<library_name_ \o ".cu",
                                       main_file(st.gen_srcs)>>)
               /\ gen_srcs_' = st.gen_srcs
               /\ outcome' = Ok("generate_code")
  /\ nOps' = nOps + 1
  /\ passes' = passes + 1
  /\ UNCHANGED <<models_, src_dir_, library_name_, platform, disk, toolchain,
                 main_model, added>>

save_sources ==
  /\ nOps < MaxOps
  /\ IF sources_ = <<>>
       THEN /\ outcome' = RuntimeError("save_sources", 0)
            /\ UNCHANGED <<src_dir_, disk>>
       ELSE LET dir == IF src_dir_ = "" THEN library_name_ \o "_srcs"
                                        ELSE src_dir_
            IN /\ src_dir_' = dir
               /\ disk' = [ dirs  |-> disk.dirs \cup {dir},
                            files |-> WriteFiles(disk.files, dir, sources_),
                            log   |-> disk.log \o
                                      [i \in 1..Len(sources_) |->
                                         <<PathJoin(dir, sources_[i][1]),
                                           sources_[i][2]>>] ]
               /\ outcome' = Ok("save_sources")
  /\ nOps' = nOps + 1
  /\ UNCHANGED <<models_, gen_srcs_, sources_, library_name_, platform,
                 toolchain, main_model, added, passes>>

create_library(exit) ==
  /\ nOps < MaxOps
  /\ LET cmd == [out |-> library_file_name(platform, library_name_),
                 src |-> PathJoin(src_dir_, library_name_ \o ".cu")]
         return_code == std_system(platform, exit)
     IN /\ toolchain' = Append(toolchain, [cmd |-> cmd, exit |-> exit])
        /\ outcome' = IF return_code # 0
                        THEN RuntimeError("create_library", return_code)
                        ELSE Ok("create_library")
  /\ nOps' = nOps + 1
  /\ UNCHANGED <<models_, gen_srcs_, sources_, src_dir_, library_name_,
                 platform, disk, main_model, added, passes>>

(***************************************************************************)
(* The code forward_one_source emits, and its execution.                   *)
(* Only the derivative components tx[2j+1], ty[2i+1] are modelled; the     *)
(* function differentiated is taken linear, with Jacobian JacEntry.        *)
(***************************************************************************)
Dims == { <<3, 2>>, <<2, 3>>, <<1, 2>> }   \* (domain n, range m)

TangentValues == {0, 1}

PriorValues == {0, 5}

Garbage == {-1, 7}

JacEntry(i, jj) == 10 * (i + 1) + (jj + 1)

Pairs(d) == (0..(d[2] - 1)) \X (0..(d[1] - 1))   \* (row, column)

\* the sparsity patterns: lists of distinct (row, column) pairs, in any order
Patterns(d) ==
  { p \in UNION { [1..k -> Pairs(d)] : k \in 0..MaxNnz } :
      \A a, b \in DOMAIN p : a # b => p[a] # p[b] }

\* running the emitted switch(pos): the called per-column functions and the
\* returned code
DispatchRun(text, pos) ==
  Let({ i \in 1..Len(text) : text[i] = <<"case", ToString(pos)>> },
      LAMBDA hit :
        IF hit = {}
          THEN [ret |-> 1, calls |-> <<>>]
          ELSE [ret |-> IF text[SetMin(hit) + 2] = <<"return", "0">>
                          THEN 0 ELSE 1,
                calls |-> <<text[SetMin(hit) + 1][2]>>])

\* the column whose generated unit defines the function fname
KernelOf(c, elems, fname) ==
  CHOOSE jj \in DOMAIN elems : ColumnFunName(c, jj) = fname

\* what the per-column function of column jj stores to out[0][0..]: the
\* nonzero entries of column jj, in the order of its row list, times dx
KernelWrites(elems, jj, dx) ==
  [e \in 1..Len(elems[jj]) |-> JacEntry(elems[jj][e], jj) * dx]

\* SparseJacobianForward(x, sparsity, rows, cols, jacFlat, work): one flat
\* entry per pair of the pattern, in the pattern's order
jacFlat(rows, cols) == [el \in 1..Len(rows) |-> JacEntry(rows[el], cols[el])]

\* the last index of row i in a column's row list
LastIndexOf(column, i) ==
  CHOOSE e \in 1..Len(column) :
    /\ column[e] = i
    /\ \A f \in (e + 1)..Len(column) : column[f] # i

\* variant: the rows of a column numbered from the end of its row list
positions_from_end(elems) ==
  [jj \in DOMAIN elems |->
     [i \in { elems[jj][e] : e \in 1..Len(elems[jj]) } |->
        Len(elems[jj]) - LastIndexOf(elems[jj], i)]]

\* for e: positions[j][column[e]] = e  (a later e replaces an earlier one)
positions(elems) ==
  [jj \in DOMAIN elems |->
     [i \in { elems[jj][e] : e \in 1..Len(elems[jj]) } |->
        LastIndexOf(elems[jj], i) - 1]]

\* jac[j].resize(column.size()): default-constructed (zero) entries
jacResized(elems) ==
  [jj \in DOMAIN elems |-> [e \in 1..Len(elems[jj]) |-> 0]]

\* for el: jac[cols[el]][positions[cols[el]].at(rows[el])] = jacFlat[el] * dx
RECURSIVE Redistribute(_, _, _, _, _, _)
Redistribute(jac, pos, rows, cols, dx, el) ==
  IF el > Len(rows) THEN jac
  ELSE Let([jac EXCEPT ![cols[el]][pos[cols[el]][rows[el]] + 1] =
                         jacFlat(rows, cols)[el] * dx],
           LAMBDA next : Redistribute(next, pos, rows, cols, dx, el + 1))

\* what the per-column function of column jj stores to out[0][0..] when it
\* was generated without atomics: column jj of the redistributed Jacobian
KernelWritesNoAtomics(c, elems, jj, dx) ==
  Redistribute(jacResized(elems), positions(elems), c.rows, c.cols, dx, 1)[jj]

\* a call <name>_sparse_forward_one(pos, out, in) with in[1] = &dx
DispatchCall(c, elems, text, pos, dx) ==
  Let(DispatchRun(text, pos),
      LAMBDA r :
        [ ret    |-> r.ret,
          calls  |-> r.calls,
          writes |-> IF r.calls = <<>> THEN <<>>
                     ELSE IF c.atomics
                       THEN KernelWrites(elems,
                                         KernelOf(c, elems, r.calls[1]), dx)
                       ELSE KernelWritesNoAtomics(
                              c, elems, KernelOf(c, elems, r.calls[1]), dx) ])

\* <name>_forward_one_sparsity(j, &pos, &nnz)
SparsityLookup(fn, jj) ==
  IF jj \in DOMAIN fn THEN [pos |-> fn[jj], nnz |-> Len(fn[jj])]
                      ELSE [pos |-> <<>>, nnz |-> 0]

\* for (ePos = 0; ePos < nnz; ePos++) ty[pos[ePos] * 2 + 1] += compressed[ePos]
RECURSIVE Scatter(_, _, _, _)
Scatter(tyv, pos, mem, e) ==
  IF e > Len(pos) THEN tyv
  ELSE Let([tyv EXCEPT ![pos[e]] = @ + mem[e - 1]],
           LAMBDA next : Scatter(next, pos, mem, e + 1))

Max(a, b) == IF a >= b THEN a ELSE b

\* compressed[] and what follows it after the zeroing loop and the dispatch
\* call of one apply iteration.  A store past compressed[n - 1] is out of
\* bounds: the slot reads back the stored value (kept) or indeterminately.
MemoryAfter(n, nnz, zero, writes, kept) ==
  [ e \in 0..(Max(Max(n, nnz), Len(writes)) - 1) |->
      IF e >= n /\ ~kept THEN junk
      ELSE IF e < Len(writes) THEN writes[e + 1]
      ELSE IF zero /\ e < nnz THEN 0
      ELSE IF e < n THEN compressed[e]
      ELSE IF e \in DOMAIN spill THEN spill[e]
      ELSE junk ]

DrvOff ==
  /\ cgen = [name |-> "", Domain |-> 0, Range |-> 0, rows |-> <<>>,
             cols |-> <<>>, atomics |-> FALSE, loopTapes |-> FALSE]
  /\ elements = EmptyMap
  /\ dispatch_src = <<>>
  /\ sparsity_fn = EmptyMap
  /\ pc = "off"
  /\ tx = <<>> /\ ty = <<>> /\ ty0 = <<>>
  /\ txPos = <<>> /\ compressed = <<>> /\ spill = EmptyMap
  /\ nnzTx = 0 /\ nnzMax = 0 /\ j = 0 /\ ej = 0 /\ ret = 0
  /\ junk = 0 /\ returned = 0
  /\ trace = <<>>
  /\ dcall = [pos |-> 0, dx |-> 0, ret |-> 0, calls |-> <<>>, writes |-> <<>>]

DrvInit ==
  \E d \in Dims, at \in BOOLEAN, lt \in BOOLEAN :
    \E p \in Patterns(d) :
      /\ cgen = [name |-> "f", Domain |-> d[1], Range |-> d[2],
                 rows |-> [e \in 1..Len(p) |-> p[e][1]],
                 cols |-> [e \in 1..Len(p) |-> p[e][2]],
                 atomics |-> at,
                 loopTapes |-> lt]
      /\ elements = EmptyMap
      /\ dispatch_src = <<>>
      /\ sparsity_fn = EmptyMap
      /\ pc = "generate"
      /\ tx = <<>> /\ ty = <<>> /\ ty0 = <<>>
      /\ txPos = <<>> /\ compressed = <<>> /\ spill = EmptyMap
      /\ nnzTx = 0 /\ nnzMax = 0 /\ j = 0 /\ ej = 0 /\ ret = 0
      /\ junk = 0 /\ returned = 0
      /\ trace = <<>>
      /\ dcall = [pos |-> 0, dx |-> 0, ret |-> 0, calls |-> <<>>,
                  writes |-> <<>>]

\* the lookup generator is handed the same partition as the dispatch generator
SameTable(elems) == {elems}

\* the lookup generator's output taken as given: the partition's table, or
\* one that also lists a column the dispatch function has no case for
AnyTable(elems) ==
  {elems} \cup { PushBackRow(elems, c, 0) :
                   c \in (0..(cgen.Domain - 1)) \ DOMAIN elems }

\* forward_one_source: partition the sparsity, emit the dispatch function,
\* the sparsity lookup and the driver
forward_one_emit(any) ==
  /\ pc = "generate"
  /\ elements' = Partition(cgen.rows, cgen.cols)
  /\ dispatch_src' = directional_function_source(
                       cgen.name \o "_sparse_forward_one", elements')
  /\ sparsity_fn' \in IF any THEN AnyTable(elements')
                             ELSE SameTable(elements')
  /\ pc' = "emitted"
  /\ UNCHANGED <<cgen, tx, ty, txPos, nnzTx, nnzMax, j, ej, ret, compressed,
                 spill, junk, returned, ty0, trace, dcall>>

EmitForwardOne == forward_one_emit(FALSE)

EmitForwardOneAnyTable == forward_one_emit(TRUE)

\* a caller invokes the emitted dispatch function directly
CallDispatch ==
  /\ pc = "emitted"
  /\ \E pos \in 0..cgen.Domain, dx \in TangentValues :
     \E r \in {DispatchCall(cgen, elements, dispatch_src, pos, dx)} :
       dcall' = [pos |-> pos, dx |-> dx, ret |-> r.ret, calls |-> r.calls,
                 writes |-> r.writes]
  /\ pc' = "dispatched"
  /\ UNCHANGED <<cgen, elements, dispatch_src, sparsity_fn, tx, ty, txPos,
                 nnzTx, nnzMax, j, ej, ret, compressed, spill, junk, returned,
                 ty0, trace>>

\* a caller invokes <name>_forward_one(ty, tx); the locals are uninitialized
DriverCall ==
  /\ pc = "emitted"
  /\ \E t \in [0..(cgen.Domain - 1) -> TangentValues],
        prior \in PriorValues, g \in Garbage :
       /\ tx' = t
       /\ ty' = [i \in 0..(cgen.Range - 1) |-> prior]
       /\ ty0' = [i \in 0..(cgen.Range - 1) |-> prior]
       /\ junk' = g
       /\ txPos' = [k \in 0..(cgen.Domain - 1) |-> g]
       /\ compressed' = [k \in 0..(cgen.Domain - 1) |-> g]
  /\ spill' = EmptyMap
  /\ nnzTx' = 0 /\ nnzMax' = 0 /\ j' = 0
  /\ pc' = "scan"
  /\ UNCHANGED <<cgen, elements, dispatch_src, sparsity_fn, ej, ret, returned,
                 trace, dcall>>

\* variant: the scan without its  else if (nnz == 0) continue;
DriverScan_no_skip ==
  /\ pc = "scan"
  /\ IF j < cgen.Domain
       THEN /\ \E nnz \in {SparsityLookup(sparsity_fn, j).nnz} :
                 IF tx[j] # 0
                   THEN /\ nnzMax' = IF nnz > nnzMax THEN nnz ELSE nnzMax
                        /\ nnzTx' = nnzTx + 1
                        /\ txPos' = [txPos EXCEPT ![nnzTx' - 1] = j]
                   ELSE UNCHANGED <<nnzMax, nnzTx, txPos>>
            /\ j' = j + 1
            /\ pc' = "scan"
       ELSE /\ pc' = "init"
            /\ UNCHANGED <<nnzMax, nnzTx, txPos, j>>
  /\ UNCHANGED <<cgen, elements, dispatch_src, sparsity_fn, tx, ty, ej, ret,
                 compressed, spill, junk, returned, ty0, trace, dcall>>

\* one iteration of  for (j = 0; j < n; j++) { if (tx[j*2+1] != 0.0) ... }
DriverScan ==
  /\ pc = "scan"
  /\ IF j < cgen.Domain
       THEN /\ \E nnz \in {SparsityLookup(sparsity_fn, j).nnz} :
                 IF tx[j] # 0 /\ (nnz > nnzMax \/ nnz # 0)
                   THEN /\ nnzMax' = IF nnz > nnzMax THEN nnz ELSE nnzMax
                        /\ nnzTx' = nnzTx + 1
                        /\ txPos' = [txPos EXCEPT ![nnzTx' - 1] = j]
                   ELSE UNCHANGED <<nnzMax, nnzTx, txPos>>
            /\ j' = j + 1
            /\ pc' = "scan"
       ELSE /\ pc' = "init"
            /\ UNCHANGED <<nnzMax, nnzTx, txPos, j>>
  /\ UNCHANGED <<cgen, elements, dispatch_src, sparsity_fn, tx, ty, ej, ret,
                 compressed, spill, junk, returned, ty0, trace, dcall>>

\* for (i = 0; i < m; i++) ty[i*2+1] = 0;  and the copy of the primal x
DriverInit ==
  /\ pc = "init"
  /\ ty' = [i \in 0..(cgen.Range - 1) |-> 0]
  /\ ej' = 0
  /\ pc' = "apply"
  /\ UNCHANGED <<cgen, elements, dispatch_src, sparsity_fn, tx, txPos, nnzTx,
                 nnzMax, j, ret, compressed, spill, junk, returned, ty0, trace,
                 dcall>>

\* variant: the apply loop without its  if (ret != 0) return ret;
DriverApply_no_check ==
  /\ pc = "apply"
  /\ IF ej < nnzTx
       THEN \E col \in {txPos[ej]}, kept \in BOOLEAN :
            \E look \in {SparsityLookup(sparsity_fn, col)} :
            \E r \in {DispatchCall(cgen, elements, dispatch_src, col,
                                   tx[col])} :
            \E mem \in {MemoryAfter(cgen.Domain, look.nnz, cgen.loopTapes,
                                    r.writes, kept)} :
              /\ j' = col
              /\ ret' = r.ret
              /\ compressed' = [e \in 0..(cgen.Domain - 1) |-> mem[e]]
              /\ spill' = [e \in DOMAIN mem \ (0..(cgen.Domain - 1)) |->
                             mem[e]]
              /\ ty' = Scatter(ty, look.pos, mem, 1)
              /\ ej' = ej + 1
              /\ pc' = "apply"
              /\ trace' = trace \o << <<"dispatch", col, r.ret>>,
                                      <<"scatter", col, 0>> >>
              /\ UNCHANGED returned
       ELSE /\ returned' = 0
            /\ pc' = "done"
            /\ UNCHANGED <<ty, ej, j, ret, compressed, spill, trace>>
  /\ UNCHANGED <<cgen, elements, dispatch_src, sparsity_fn, tx, txPos, nnzTx,
                 nnzMax, junk, ty0, dcall>>

\* one iteration of  for (ej = 0; ej < nnzTx; ej++) { ... }, or return 0
DriverApply ==
  /\ pc = "apply"
  /\ IF ej < nnzTx
       THEN \E col \in {txPos[ej]}, kept \in BOOLEAN :
            \E look \in {SparsityLookup(sparsity_fn, col)} :
            \E r \in {DispatchCall(cgen, elements, dispatch_src, col,
                                   tx[col])} :
            \E mem \in {MemoryAfter(cgen.Domain, look.nnz, cgen.loopTapes,
                                    r.writes, kept)} :
              /\ j' = col
              /\ ret' = r.ret
              /\ compressed' = [e \in 0..(cgen.Domain - 1) |-> mem[e]]
              /\ spill' = [e \in DOMAIN mem \ (0..(cgen.Domain - 1)) |->
                             mem[e]]
              /\ IF r.ret # 0
                   THEN /\ returned' = r.ret
                        /\ pc' = "done"
                        /\ trace' = Append(trace, <<"dispatch", col, r.ret>>)
                        /\ UNCHANGED <<ty, ej>>
                   ELSE /\ ty' = Scatter(ty, look.pos, mem, 1)
                        /\ ej' = ej + 1
                        /\ pc' = "apply"
                        /\ trace' = trace \o << <<"dispatch", col, r.ret>>,
                                                <<"scatter", col, 0>> >>
                        /\ UNCHANGED returned
       ELSE /\ returned' = 0
            /\ pc' = "done"
            /\ UNCHANGED <<ty, ej, j, ret, compressed, spill, trace>>
  /\ UNCHANGED <<cgen, elements, dispatch_src, sparsity_fn, tx, txPos, nnzTx,
                 nnzMax, junk, ty0, dcall>>

LibOff ==
  /\ models_ = <<1>> /\ main_model = 1 /\ library_name_ = "a"
  /\ platform = "posix" /\ src_dir_ = "" /\ gen_srcs_ = <<>>
  /\ sources_ = <<>>
  /\ disk = [dirs |-> {}, files |-> EmptyMap, log |-> <<>>]
  /\ toolchain = <<>> /\ outcome = Ok("construct")
  /\ nOps = 0 /\ added = <<>> /\ passes = 0

(***************************************************************************)
(* Specifications                                                          *)
(***************************************************************************)
Init == LibInit /\ DrvOff

Next ==
  \/ (\E model \in ModelIds, prepend \in BOOLEAN : add_model(model, prepend))
       /\ UNCHANGED drvVars
  \/ generate_code /\ UNCHANGED drvVars
  \/ save_sources /\ UNCHANGED drvVars
  \/ (\E exit \in ExitCodes : create_library(exit)) /\ UNCHANGED drvVars

\* the library processor
Spec == Init /\ [][Next]_vars

\* forward_one_source and the emitted dispatch function and driver
InitDriver == DrvInit /\ LibOff

NextDriver ==
  \/ EmitForwardOne /\ UNCHANGED libVars
  \/ CallDispatch /\ UNCHANGED libVars
  \/ DriverCall /\ UNCHANGED libVars
  \/ DriverScan /\ UNCHANGED libVars
  \/ DriverInit /\ UNCHANGED libVars
  \/ DriverApply /\ UNCHANGED libVars

SpecDriver == InitDriver /\ [][NextDriver]_vars


\* the same, with the sparsity lookup not assumed to match the dispatch table
NextDriverAnyTable ==
  \/ EmitForwardOneAnyTable /\ UNCHANGED libVars
  \/ CallDispatch /\ UNCHANGED libVars
  \/ DriverCall /\ UNCHANGED libVars
  \/ DriverScan /\ UNCHANGED libVars
  \/ DriverInit /\ UNCHANGED libVars
  \/ DriverApply /\ UNCHANGED libVars

SpecDriverAnyTable == InitDriver /\ [][NextDriverAnyTable]_vars

(***************************************************************************)
(* Properties of the library processor                                     *)
(***************************************************************************)
IsStep(op) == outcome'.op = op /\ nOps' = nOps + 1

\* C1: generate_code is idempotent: a second call right after a first one,
\* both completing, leaves sources() as it was after the first.
C1_GenerateCodeIdempotent ==
  [][ ( /\ IsStep("generate_code")
        /\ outcome = Ok("generate_code")
        /\ outcome' = Ok("generate_code") )
      => sources_' = sources_ ]_vars

\* C2: save_sources before any generate_code fails with a runtime error and
\* leaves the disk and src_dir alone; after generate_code it succeeds, writes
\* one file per unit in sequence order, and every unit of sources() is then
\* on disk, verbatim, under its identifier.
C2_SaveSources ==
  [][ IsStep("save_sources") =>
        IF passes = 0
          THEN /\ outcome'.status = "runtime_error"
               /\ disk' = disk
               /\ src_dir_' = src_dir_
          ELSE /\ outcome'.status = "ok"
               /\ src_dir_' \in disk'.dirs
               /\ disk'.log = disk.log \o
                    [i \in 1..Len(sources_) |->
                       <<PathJoin(src_dir_', sources_[i][1]), sources_[i][2]>>]
               /\ \A i \in 1..Len(sources_) :
                    /\ PathJoin(src_dir_', sources_[i][1]) \in DOMAIN disk'.files
                    /\ disk'.files[PathJoin(src_dir_', sources_[i][1])]
                         = sources_[i][2]
    ]_vars

\* the state right after the first generate_code pass, which completed
FreshPass == outcome = Ok("generate_code") /\ passes = 1

MainText == Last(sources_)[2]

OtherIds == SubSeq(UnitIds(sources_), 1, Len(sources_) - 1)

\* the identifiers the units before the main unit include themselves
NestedIncludes ==
  Concat([i \in 1..(Len(sources_) - 1) |-> IncludeList(sources_[i][2])])

\* the elements of ids that occur in among, and those that do not
Within(ids, among) ==
  SelectSeq(ids, LAMBDA id : \E k \in 1..Len(among) : among[k] = id)

Without(ids, among) ==
  SelectSeq(ids, LAMBDA id : \A k \in 1..Len(among) : among[k] # id)

FramedByHeadersAndMain ==
  /\ Len(sources_) >= 3
  /\ sources_[1][1] = "util.h"
  /\ sources_[2][1] = "model_info.h"
  /\ Last(sources_)[1] = library_name_ \o ".cu"

\* C3 as stated: after the first pass the sequence begins with util.h and
\* model_info.h, ends with <library>.cu, and the main unit includes every
\* other unit, per-column kernel units included, once each and in order.
C3_MainIncludesEveryUnit ==
  FreshPass => /\ FramedByHeadersAndMain
               /\ IncludeList(MainText) = OtherIds

\* C3 amended: the main unit includes, in generation order, util.h,
\* model_info.h and every per-capability unit; the per-column kernel units
\* are included, each once and in generation order, by the forward-one unit
\* generated right after them and not by the main unit.
C3_MainIncludesCapabilityUnits ==
  FreshPass =>
    LET nested == NestedIncludes
        others == OtherIds
        main   == IncludeList(MainText)
    IN /\ FramedByHeadersAndMain
       /\ main = Without(others, nested)
       /\ nested = Within(others, nested)
       /\ main = <<"util.h", "model_info.h">> \o gen_srcs_

C3_Witness ==
  /\ FreshPass
  /\ Len(models_) >= 2
  /\ Len(Within(OtherIds, NestedIncludes)) >= 2
  /\ Len(gen_srcs_) >= 3

Prepended == SelectSeq(added, LAMBDA a : a.prepend)
Appended == SelectSeq(added, LAMBDA a : ~a.prepend)
ModelsOf(as) == [i \in 1..Len(as) |-> as[i].model]

C10_ReportsExitCode ==
  [][ IsStep("create_library") =>
        /\ Len(toolchain') = Len(toolchain) + 1
        /\ IF Last(toolchain').exit # 0
             THEN outcome' = RuntimeError("create_library",
                                          Last(toolchain').exit)
             ELSE outcome' = Ok("create_library") ]_vars

(***************************************************************************)
(* Properties of forward_one_source and of the code it emits               *)
(***************************************************************************)
PatternSet == { <<cgen.rows[e], cgen.cols[e]>> : e \in 1..Len(cgen.rows) }

Entries(elems) ==
  { ck \in (DOMAIN elems) \X (1..(MaxNnz + 1)) : ck[2] <= Len(elems[ck[1]]) }

Flatten(elems) == { <<elems[ck[1]][ck[2]], ck[1]>> : ck \in Entries(elems) }

\* the rows paired with column c, in the order the pattern lists them
RowsOfColumn(c) ==
  LET idx == SelectSeq([e \in 1..Len(cgen.cols) |-> e],
                       LAMBDA e : cgen.cols[e] = c)
  IN [k \in 1..Len(idx) |-> cgen.rows[idx[k]]]

\* C5: the partition flattens back to the sparsity pattern; its columns are
\* exactly those with a nonzero row, each with a non-empty row list; it has
\* as many entries as the pattern; rows keep their order of encounter.
C5_PartitionRoundTrip ==
  pc # "generate" =>
    /\ Flatten(elements) = PatternSet
    /\ DOMAIN elements = { cgen.cols[e] : e \in 1..Len(cgen.cols) }
    /\ \A c \in DOMAIN elements : Len(elements[c]) >= 1
    /\ Cardinality(Entries(elements)) = Len(cgen.rows)
    /\ \A c \in DOMAIN elements : elements[c] = RowsOfColumn(c)

C5_Witness ==
  /\ pc = "emitted"
  /\ Cardinality(DOMAIN elements) >= 2
  /\ \E c \in DOMAIN elements :
       Len(elements[c]) >= 2 /\ elements[c][1] > elements[c][2]

\* C6: the dispatch function returns 0 exactly for the positions present in
\* the partition, calling <name>_indep<pos> once and nothing else; for any
\* other position it returns 1, calls nothing and writes nothing.
C6_Dispatch ==
  pc = "dispatched" =>
    IF dcall.pos \in DOMAIN elements
      THEN /\ dcall.ret = 0
           /\ dcall.calls = << cgen.name \o "_sparse_forward_one" \o "_indep"
                               \o ToString(dcall.pos) >>
           /\ Len(dcall.writes) = Len(elements[dcall.pos])
      ELSE /\ dcall.ret = 1
           /\ dcall.calls = <<>>
           /\ dcall.writes = <<>>

C6_Witness ==
  /\ pc = "dispatched"
  /\ DOMAIN elements = {0, 2}
  /\ elements[0] = <<0, 1>> /\ elements[2] = <<0>>
  /\ dcall.pos = 1 /\ dcall.ret = 1

RowCount(c) == IF c \in DOMAIN elements THEN Len(elements[c]) ELSE 0

Active == { c \in 0..(cgen.Domain - 1) : tx[c] # 0 /\ RowCount(c) # 0 }

RECURSIVE SumContrib(_, _)
SumContrib(S, i) ==
  IF S = {} THEN 0
  ELSE LET ck == CHOOSE x \in S : TRUE
       IN (IF elements[ck[1]][ck[2]] = i
             THEN JacEntry(i, ck[1]) * tx[ck[1]] ELSE 0)
          + SumContrib(S \ {ck}, i)

\* the sum over the active columns whose row list contains i of the column's
\* compressed contribution at i's position
ExpectedTy(i) ==
  SumContrib({ ck \in Entries(elements) : ck[1] \in Active }, i)

\* C7: when the driver returns 0, every ty[2i+1] is the sum of the active
\* columns' contributions at row i (0 when none touches i), whatever ty held
\* before the call.
C7_Additivity ==
  (pc = "done" /\ returned = 0) =>
    \A i \in 0..(cgen.Range - 1) : ty[i] = ExpectedTy(i)

\* C8: after the scan txPos[0..nnzTx) lists exactly the columns with nonzero
\* tangent and nonzero row count, ascending; no other column is dispatched;
\* with no active column the driver returns 0 and ty is all zero.
C8_Scan ==
  pc \in {"init", "apply", "done"} =>
    /\ nnzTx = Cardinality(Active)
    /\ \A k \in 0..(nnzTx - 1) : txPos[k] \in Active
    /\ \A k, l \in 0..(nnzTx - 1) : k < l => txPos[k] < txPos[l]
    /\ \A q \in 1..Len(trace) : trace[q][2] \in Active
    /\ (pc = "done" /\ Active = {}) =>
         /\ returned = 0
         /\ trace = <<>>
         /\ \A i \in 0..(cgen.Range - 1) : ty[i] = 0

C8_Witness ==
  /\ pc = "done"
  /\ nnzTx = 2
  /\ \E c \in 0..(cgen.Domain - 1) :
       /\ tx[c] # 0 /\ RowCount(c) = 0
       /\ \E k \in 0..(nnzTx - 1) : txPos[k] > c

\* the trace of kk active columns dispatched with status 0 and scattered
Processed(kk) ==
  Concat([q \in 1..kk |-> << <<"dispatch", txPos[q - 1], 0>>,
                             <<"scatter", txPos[q - 1], 0>> >>])

\* C9: active columns are dispatched in scan order, each scattered right
\* after its dispatch returned 0; the first nonzero dispatch code is returned
\* at once, with that column not scattered and no later column dispatched;
\* 0 is returned only after all active columns were dispatched and scattered.
C9_FailFast ==
  /\ pc = "apply" => trace = Processed(ej)
  /\ (pc = "done" /\ returned = 0) => trace = Processed(nnzTx)
  /\ (pc = "done" /\ returned # 0) =>
       /\ ej < nnzTx
       /\ ret = returned
       /\ trace = Processed(ej) \o << <<"dispatch", txPos[ej], returned>> >>

C9_Witness ==
  /\ pc = "done" /\ returned = 1
  /\ nnzTx = 3 /\ ej = 1
  /\ Len(trace) = 3
  /\ \E i \in 0..(cgen.Range - 1) : ty[i] # 0

\* the flat entries that the redistribution stores at slot e of column c
FlatEntriesAt(c, e) ==
  { el \in 1..Len(cgen.rows) :
      /\ cgen.cols[el] = c
      /\ positions(elements)[c][cgen.rows[el]] = e - 1 }

\* C11: for every column of the partition, with row list R, the direct-sparse
\* column vector has length Len(R); its entry e is the flat Jacobian entry of
\* the pair (R[e], column) times the tangent; every slot is assigned by
\* exactly one flat entry; and it is the vector the atomic-safe strategy
\* produces by selecting dy[R[e]] in R's order.
C11_LayoutAgreement ==
  (pc = "dispatched" /\ ~cgen.atomics /\ dcall.ret = 0) =>
    LET c == dcall.pos
        R == elements[c]
    IN /\ Len(dcall.writes) = Len(R)
       /\ \A e \in 1..Len(R) :
            /\ Cardinality(FlatEntriesAt(c, e)) = 1
            /\ \A el \in FlatEntriesAt(c, e) :
                 /\ cgen.rows[el] = R[e]
                 /\ dcall.writes[e] = jacFlat(cgen.rows, cgen.cols)[el]
                                      * dcall.dx
       /\ dcall.writes = KernelWrites(elements, c, dcall.dx)

C11_Witness ==
  /\ pc = "dispatched" /\ ~cgen.atomics /\ dcall.ret = 0
  /\ dcall.dx = 1
  /\ Len(dcall.writes) >= 2
  /\ elements[dcall.pos][1] > elements[dcall.pos][2]
  /\ Cardinality(DOMAIN elements) >= 2

\* C12: every access of the driver to its fixed-size buffers stays inside
\* them: txPos (capacity n) is written only at indices < n; compressed
\* (capacity n) is stored to and read only at indices < n, the row count of
\* an active column never exceeding n; ty is accessed only at rows < m.
C12_BufferBounds ==
  pc \in {"scan", "init", "apply", "done"} =>
    /\ nnzTx <= cgen.Domain
    /\ \A k \in 0..(nnzTx - 1) : k \in DOMAIN txPos
    /\ DOMAIN spill = {}
    /\ \A c \in Active : RowCount(c) <= cgen.Domain
    /\ \A c \in DOMAIN sparsity_fn : \A e \in 1..Len(sparsity_fn[c]) :
         sparsity_fn[c][e] \in DOMAIN ty

\* C13: a generate_code pass that fails on a model whose global-input size
\* exceeds its domain size leaves sources() as it was before the pass, and a
\* save_sources right after a failed first pass fails with the not-generated
\* error and writes nothing.
C13_NoPartialSuccess ==
  [][ /\ ( IsStep("generate_code") /\ outcome'.status = "runtime_error" )
           => sources_' = sources_
      /\ ( /\ IsStep("save_sources")
           /\ outcome = RuntimeError("generate_code", 0)
           /\ passes = 1 )
           => /\ outcome' = RuntimeError("save_sources", 0)
              /\ disk' = disk ]_vars

====
